---- MODULE Spec2Model ----
(***************************************************************************)
(* DeepAds: the research engine (deepads_research.py), the template copy   *)
(* generator (deepads_copy.py) and the Streamlit handlers that call them   *)
(* (app.py).                                                               *)
(*                                                                         *)
(* Python str values are TLA+ strings.  The str methods the code uses are  *)
(* defined below character by character over the ASCII alphabet; the four  *)
(* non-ASCII punctuation marks of the body templates (curly quotes, curly  *)
(* apostrophe, en dash) are written as their ASCII look-alikes, which like *)
(* the originals are neither alphanumeric, nor whitespace, nor cased.      *)
(***************************************************************************)
EXTENDS Integers, Sequences, FiniteSets, TLC

VARIABLES
    product_description,  \* argument of analyze_market_text
    voc_text,             \* argument of analyze_market_text
    config,               \* the AdConfig object handed to the generator
    insights,             \* the ResearchInsights returned by / handed to the core
    variants,             \* the list returned by generate_ad_variants_with_alex
    passed_config,        \* the AdConfig as it was when the generator was called
    pc,                   \* position of the caller / the handler the last run took
    form,                 \* app: the sidebar widgets other than the description
    session,              \* app: st.session_state["research_insights"]
    screen                \* app: what the handlers of the last script run rendered

vars == <<product_description, voc_text, config, insights, variants, passed_config, pc,
          form, session, screen>>

\* The variables only the app writes
app_vars == <<form, session, screen>>

----------------------------------------------------------------------------
(* Python str primitives                                                   *)

UPPERCASE == "ABCDEFGHIJKLMNOPQRSTUVWXYZ"
LOWERCASE == "abcdefghijklmnopqrstuvwxyz"
DIGITS == "0123456789"
WHITESPACE == " \n\t\r"

Char(s, i) == SubSeq(s, i, i)

CharsOf(s) == {Char(s, i) : i \in 1..Len(s)}

UpperSet == CharsOf(UPPERCASE)
LowerSet == CharsOf(LOWERCASE)
DigitSet == CharsOf(DIGITS)
SpaceSet == CharsOf(WHITESPACE)

ToLowerMap == [c \in UpperSet |->
                 Char(LOWERCASE, CHOOSE i \in 1..Len(UPPERCASE) : Char(UPPERCASE, i) = c)]
ToUpperMap == [c \in LowerSet |->
                 Char(UPPERCASE, CHOOSE i \in 1..Len(LOWERCASE) : Char(LOWERCASE, i) = c)]

CasedSet == UpperSet \cup LowerSet
AlnumSet == CasedSet \cup DigitSet

\* str.isalnum / str.isspace / cased, for one character
IsAlnum(c) == c \in AlnumSet
IsSpace(c) == c \in SpaceSet
IsCased(c) == c \in CasedSet

LowerChar(c) == IF c \in UpperSet THEN ToLowerMap[c] ELSE c
UpperChar(c) == IF c \in LowerSet THEN ToUpperMap[c] ELSE c

\* s[:n]
Prefix(s, n) == SubSeq(s, 1, IF n < Len(s) THEN n ELSE Len(s))

\* s[i-1:] (from 1-based position i to the end)
Suffix(s, i) == SubSeq(s, i, Len(s))

\* 1, 2, ..., n
Indices(n) == [i \in 1..n |-> i]

\* The smallest member of a non-empty set of integers
Min(S) == CHOOSE x \in S : \A y \in S : x <= y

RECURSIVE LowerRange(_, _, _)
LowerRange(s, lo, hi) ==
    IF lo > hi THEN ""
    ELSE IF lo = hi THEN LowerChar(Char(s, lo))
    ELSE LET mid == (lo + hi) \div 2
         IN  LowerRange(s, lo, mid) \o LowerRange(s, mid + 1, hi)

\* str.lower()
Lower(s) == LowerRange(s, 1, Len(s))

\* str.capitalize(): first character upper-cased, the rest lower-cased
Capitalize(s) ==
    IF Len(s) = 0 THEN "" ELSE UpperChar(Char(s, 1)) \o LowerRange(s, 2, Len(s))

\* str.title(), character i: a cased character is upper-cased after an
\* uncased one (or at the start) and lower-cased after a cased one
TitleChar(s, i) ==
    IF i > 1 /\ IsCased(Char(s, i - 1)) THEN LowerChar(Char(s, i))
    ELSE UpperChar(Char(s, i))

RECURSIVE TitleRange(_, _, _)
TitleRange(s, lo, hi) ==
    IF lo > hi THEN ""
    ELSE IF lo = hi THEN TitleChar(s, lo)
    ELSE LET mid == (lo + hi) \div 2
         IN  TitleRange(s, lo, mid) \o TitleRange(s, mid + 1, hi)

\* str.title()
Title(s) == TitleRange(s, 1, Len(s))

\* Position of the first non-whitespace character at or after i (Len+1 if none)
FirstNonSpace(s, i) ==
    Min({j \in i..Len(s) : ~IsSpace(Char(s, j))} \cup {Len(s) + 1})

\* Position of the last non-whitespace character (0 if none)
LastNonSpace(s) ==
    Len(s) + 1 - Min({Len(s) + 1 - j : j \in {k \in 1..Len(s) : ~IsSpace(Char(s, k))}}
                     \cup {Len(s) + 1})

\* str.strip()
Strip(s) == SubSeq(s, FirstNonSpace(s, 1), LastNonSpace(s))

\* Positions where a maximal run of non-whitespace characters starts / ends
WordStarts(s) ==
    SelectSeq(Indices(Len(s)),
              LAMBDA i : ~IsSpace(Char(s, i)) /\ (i = 1 \/ IsSpace(Char(s, i - 1))))
WordEnds(s) ==
    SelectSeq(Indices(Len(s)),
              LAMBDA i : ~IsSpace(Char(s, i)) /\ (i = Len(s) \/ IsSpace(Char(s, i + 1))))

\* str.split(): the maximal runs of non-whitespace characters
Split(s) ==
    LET starts == WordStarts(s)
        ends == WordEnds(s)
    IN  [k \in DOMAIN starts |-> SubSeq(s, starts[k], ends[k])]

\* Positions where a line starts (1 and after each line feed) / the position
\* just past its end (each line feed and Len+1)
LineStarts(s) ==
    SelectSeq(Indices(Len(s) + 1), LAMBDA i : i = 1 \/ Char(s, i - 1) = "\n")
LineEnds(s) ==
    SelectSeq(Indices(Len(s) + 1), LAMBDA i : i = Len(s) + 1 \/ Char(s, i) = "\n")

\* str.split("\n"): the pieces between line feeds, empty pieces included
SplitLines(s) ==
    LET starts == LineStarts(s)
        ends == LineEnds(s)
    IN  [k \in DOMAIN starts |-> SubSeq(s, starts[k], ends[k] - 1)]

RECURSIVE JoinRange(_, _, _, _)
JoinRange(sep, parts, lo, hi) ==
    IF lo > hi THEN ""
    ELSE IF lo = hi THEN parts[lo]
    ELSE LET mid == (lo + hi) \div 2
         IN  JoinRange(sep, parts, lo, mid) \o sep \o JoinRange(sep, parts, mid + 1, hi)

\* sep.join(parts)
Join(sep, parts) == JoinRange(sep, parts, 1, Len(parts))

\* s.startswith(sub, i-1)
StartsAt(s, sub, i) ==
    i + Len(sub) - 1 <= Len(s) /\ SubSeq(s, i, i + Len(sub) - 1) = sub

\* sub in s
Contains(s, sub) == \E i \in 1..(Len(s) - Len(sub) + 1) : StartsAt(s, sub, i)

\* Position of the first occurrence of old at or after i (0 if none)
Find(s, old, i) ==
    LET hits == {j \in i..(Len(s) - Len(old) + 1) : StartsAt(s, old, j)}
    IN  IF hits = {} THEN 0 ELSE Min(hits)

RECURSIVE ReplaceFrom(_, _, _, _)
ReplaceFrom(s, old, new, i) ==
    LET j == Find(s, old, i)
    IN  IF j = 0 THEN SubSeq(s, i, Len(s))
        ELSE SubSeq(s, i, j - 1) \o new \o ReplaceFrom(s, old, new, j + Len(old))

\* s.replace(old, new) for non-empty old: leftmost, non-overlapping
Replace(s, old, new) == ReplaceFrom(s, old, new, 1)

\* xs[:n] for a list
Take(xs, n) == SubSeq(xs, 1, IF n < Len(xs) THEN n ELSE Len(xs))

----------------------------------------------------------------------------
(* deepads_research.py                                                     *)

NoInsights == [none |-> TRUE]

\* ResearchInsights(top_keywords, pains, desires, objections, raw_notes)
ResearchInsights(kw, p, d, o, raw) ==
    [top_keywords |-> kw, pains |-> p, desires |-> d, objections |-> o,
     raw_notes |-> raw]

STOPWORDS ==
    {"the", "a", "an", "and", "or", "to", "of", "for", "in", "on", "is", "are",
     "it", "this", "that", "with", "at", "be", "as", "by", "from", "about", "was",
     "were", "have", "had", "has", "but", "if", "they", "you", "we", "i", "so"}

PAIN_TRIGGERS ==
    <<"frustrated", "tired of", "annoyed", "hate", "sick of", "doesn't work",
      "does not work">>
DESIRE_TRIGGERS == <<"want", "wish", "would love", "looking for", "need", "dream">>
OBJECTION_TRIGGERS == <<"worried", "not sure", "concerned", "skeptical", "afraid">>

\* Counter.most_common(30) and the [:15] slice of the keyword list
MostCommonN == 30
MaxKeywords == 15
\* product_description[:80] in the two fallback sentences
FallbackChars == 80

CleanChar(ch) == IF IsAlnum(ch) \/ IsSpace(ch) THEN ch ELSE " "

RECURSIVE CleanRange(_, _, _)
CleanRange(s, lo, hi) ==
    IF lo > hi THEN ""
    ELSE IF lo = hi THEN CleanChar(Char(s, lo))
    ELSE LET mid == (lo + hi) \div 2
         IN  CleanRange(s, lo, mid) \o CleanRange(s, mid + 1, hi)

\* cleaned: every character of text.lower() that is neither alphanumeric
\* nor whitespace becomes a space
Cleaned(text) ==
    LET low == Lower(text) IN CleanRange(low, 1, Len(low))

\* _tokenize(text)
Tokenize(text) == SelectSeq(Split(Cleaned(text)), LAMBDA t : t # "" /\ t \notin STOPWORDS)

\* list(Counter(tokens)): the distinct tokens in first-seen (insertion) order
CounterKeys(tokens) ==
    LET firsts == SelectSeq(Indices(Len(tokens)),
                            LAMBDA i : \A j \in 1..(i - 1) : tokens[j] # tokens[i])
    IN  [k \in DOMAIN firsts |-> tokens[firsts[k]]]

\* Counter(tokens)[w]
CountOf(tokens, w) == Cardinality({i \in DOMAIN tokens : tokens[i] = w})

\* Counter(tokens).items(): (word, count) pairs in insertion order
CounterItems(tokens) ==
    LET keys == CounterKeys(tokens)
    IN  [k \in DOMAIN keys |-> [w |-> keys[k], c |-> CountOf(tokens, keys[k])]]

\* Mutant of FirstLargest: among equal counts the latest item wins
FirstLargestLastSeen(items) ==
    CHOOSE i \in DOMAIN items :
        \A j \in DOMAIN items :
            \/ items[j].c < items[i].c
            \/ items[j].c = items[i].c /\ i >= j

\* The position sorted(..., reverse=True) puts first: the largest count, and
\* among equal counts the earliest item (the sort is stable).
FirstLargest(items) ==
    CHOOSE i \in DOMAIN items :
        \A j \in DOMAIN items :
            \/ items[j].c < items[i].c
            \/ items[j].c = items[i].c /\ i <= j

RECURSIVE NLargest(_, _)
NLargest(items, n) ==
    IF n = 0 \/ items = <<>> THEN <<>>
    ELSE LET i == FirstLargest(items)
         IN  <<items[i]>>
                 \o NLargest(SubSeq(items, 1, i - 1) \o SubSeq(items, i + 1, Len(items)),
                             n - 1)

\* Counter(tokens).most_common(n)
MostCommon(tokens, n) == NLargest(CounterItems(tokens), n)

\* Mutant of Keywords: the filter is c >= 1
KeywordsKeepSingles(tokens) ==
    LET frequent == SelectSeq(MostCommon(tokens, MostCommonN), LAMBDA p : p.c >= 1)
    IN  Take([k \in DOMAIN frequent |-> frequent[k].w], MaxKeywords)

\* keywords = [w for w, c in counts.most_common(30) if c > 1][:15]
Keywords(tokens) ==
    LET frequent == SelectSeq(MostCommon(tokens, MostCommonN), LAMBDA p : p.c > 1)
    IN  Take([k \in DOMAIN frequent |-> frequent[k].w], MaxKeywords)

\* lines = [l.strip() for l in voc_text.split("\n") if l.strip()]
CorpusLines(voc) ==
    LET kept == SelectSeq(SplitLines(voc), LAMBDA l : Strip(l) # "")
    IN  [k \in DOMAIN kept |-> Strip(kept[k])]

\* any(trigger in lower for trigger in triggers)
AnyIn(lower, triggers) == \E k \in DOMAIN triggers : Contains(lower, triggers[k])

\* Mutant of AnyTrigger: the line is tested as written, not lowercased
AnyTriggerCaseSensitive(line, triggers) == AnyIn(line, triggers)

\* lower = line.lower(); any(trigger in lower for trigger in triggers)
AnyTrigger(line, triggers) == LET lower == Lower(line) IN AnyIn(lower, triggers)

\* the lines appended to one bucket by the loop over lines
Matching(lines, triggers) == SelectSeq(lines, LAMBDA l : AnyTrigger(l, triggers))

PainFallback(pd) ==
    "People struggle to get consistent results with current solutions for "
        \o Prefix(pd, FallbackChars) \o "..."

DesireFallback(pd) ==
    "They want a simpler, faster way to benefit from "
        \o Prefix(pd, FallbackChars) \o "."

\* if not pains and product_description: pains.append(...)
Pains(pd, voc) ==
    LET found == Matching(CorpusLines(voc), PAIN_TRIGGERS)
    IN  IF found = <<>> /\ pd # "" THEN Append(found, PainFallback(pd)) ELSE found

\* Mutant of Desires: the fallback is guarded by the pains list
DesiresGuardedByPains(pd, voc) ==
    LET found == Matching(CorpusLines(voc), DESIRE_TRIGGERS)
    IN  IF Matching(CorpusLines(voc), PAIN_TRIGGERS) = <<>> /\ pd # ""
        THEN Append(found, DesireFallback(pd)) ELSE found

\* if not desires and product_description: desires.append(...)
Desires(pd, voc) ==
    LET found == Matching(CorpusLines(voc), DESIRE_TRIGGERS)
    IN  IF found = <<>> /\ pd # "" THEN Append(found, DesireFallback(pd)) ELSE found

\* Mutant of Objections: the fallback of the other two buckets, copied
ObjectionsWithFallback(voc) ==
    LET found == Matching(CorpusLines(voc), OBJECTION_TRIGGERS)
    IN  IF found = <<>> /\ voc # ""
        THEN Append(found, "They are not sure it works for them.") ELSE found

\* objections get no fallback
Objections(voc) == Matching(CorpusLines(voc), OBJECTION_TRIGGERS)

\* analyze_market_text(product_description, voc_text)
AnalyzeMarketText(pd, voc) ==
    LET combined == Strip(pd \o "\n" \o voc)
        tokens == Tokenize(combined)
    IN  ResearchInsights(Keywords(tokens), Pains(pd, voc), Desires(pd, voc),
                         Objections(voc), voc)

----------------------------------------------------------------------------
(* deepads_image.py, deepads_copy.py                                       *)

\* x or y, for two str values
OrElse(x, y) == IF x # "" THEN x ELSE y

\* suggest_aspect_ratio_for_platform(platform)
SuggestAspectRatio(platform) ==
    CASE platform = "Facebook" -> "1:1 or 4:5"
      [] platform = "Instagram" -> "4:5 (feed) or 9:16 (Reels)"
      [] platform = "TikTok" -> "9:16"
      [] platform = "YouTube" -> "16:9"
      [] platform = "LinkedIn" -> "1.91:1 or 1:1"
      [] platform = "X (Twitter)" -> "16:9"
      [] platform = "Display" -> "300x250 / 728x90 / 160x600"
      [] OTHER -> "4:5"

\* AdVariant(framework, headline, body, cta, short_link, ltx_prompt)
AdVariant(fw, headline, body, cta, short_link, ltx_prompt) ==
    [framework |-> fw, headline |-> headline, body |-> body, cta |-> cta,
     short_link |-> short_link, ltx_prompt |-> ltx_prompt]

DEFAULT_FRAMEWORK == "AIDA"
DEFAULT_CTA_LABEL == "Default for Objective"

\* _choose_keyword(insights)
ChooseKeyword(ins) ==
    IF ins.top_keywords # <<>> THEN ins.top_keywords[1] ELSE "innovation"

\* Mutant of ObjectiveCta: the Retention entry is missing from the mapping
ObjectiveCtaNoRetention(objective) ==
    CASE objective = "Awareness" -> "Learn More"
      [] objective = "Traffic" -> "Learn More"
      [] objective = "Conversion" -> "Shop Now"
      [] objective = "Lead Gen" -> "Get Started"
      [] OTHER -> "Learn More"

\* the mapping of _choose_cta, with mapping.get(objective, "Learn More")
ObjectiveCta(objective) ==
    CASE objective = "Awareness" -> "Learn More"
      [] objective = "Traffic" -> "Learn More"
      [] objective = "Conversion" -> "Shop Now"
      [] objective = "Lead Gen" -> "Get Started"
      [] objective = "Retention" -> "See What's New"
      [] OTHER -> "Learn More"

\* Mutant of ChooseCta: the custom CTA is returned without the second strip()
ChooseCtaUnstripped(cfg) ==
    IF Strip(cfg.custom_cta) # "" THEN cfg.custom_cta
    ELSE IF cfg.cta_label = DEFAULT_CTA_LABEL THEN ObjectiveCta(cfg.objective)
    ELSE cfg.cta_label

\* _choose_cta(config)
ChooseCta(cfg) ==
    IF Strip(cfg.custom_cta) # "" THEN Strip(cfg.custom_cta)
    ELSE IF cfg.cta_label = DEFAULT_CTA_LABEL THEN ObjectiveCta(cfg.objective)
    ELSE cfg.cta_label

\* the replacements dict of _simplify_text_level, in insertion order
REPLACEMENTS ==
    <<[old |-> "optimize", new |-> "improve"],
      [old |-> "conversion", new |-> "results"],
      [old |-> "experience", new |-> "use"],
      [old |-> "leverage", new |-> "use"]>>

\* text.replace(old, new).replace(old.capitalize(), new.capitalize())
ReplaceWord(text, r) ==
    Replace(Replace(text, r.old, r.new), Capitalize(r.old), Capitalize(r.new))

RECURSIVE ApplyReplacements(_, _)
ApplyReplacements(text, i) ==
    IF i > Len(REPLACEMENTS) THEN text
    ELSE ApplyReplacements(ReplaceWord(text, REPLACEMENTS[i]), i + 1)

\* _simplify_text_level(text, voice_style)
SimplifyTextLevel(text, voice_style) ==
    IF voice_style \in {"Very Simple", "Simple"} THEN ApplyReplacements(text, 1)
    ELSE IF voice_style = "Technical"
    THEN text \o "\n\nTech note: Built with data-driven optimization in mind."
    ELSE text

\* Mutant of HeadlineProduct: the slice is [:5]
HeadlineProductFiveWords(cfg) ==
    OrElse(Join(" ", Take(Split(Strip(cfg.product_description)), 5)), "Your Product")

\* product = " ".join(config.product_description.strip().split()[:4]) or "Your Product"
HeadlineProduct(cfg) ==
    OrElse(Join(" ", Take(Split(Strip(cfg.product_description)), 4)), "Your Product")

\* audience = config.target_audience or "your audience"
Audience(cfg) == OrElse(cfg.target_audience, "your audience")

\* Mutant of GenerateHeadline: the AIDA comparison is misspelt, so AIDA falls
\* through to the generic headline
GenerateHeadlineAidaMisspelt(cfg, ins, fw) ==
    LET keyword == ChooseKeyword(ins)
        product == HeadlineProduct(cfg)
        audience == Audience(cfg)
    IN  CASE fw = "Aida" ->
               product \o ": The " \o Title(keyword) \o " Upgrade " \o audience
                   \o " Actually Use"
          [] fw = "PAS" ->
               "Tired of " \o Lower(keyword) \o " Failures? Meet " \o product
          [] fw = "4Ps" ->
               product \o " - " \o Title(keyword) \o " in Every Detail"
          [] fw = "Story" ->
               "How " \o Title(audience) \o " Go From Stuck to Thriving with "
                   \o product
          [] OTHER ->
               product \o ": Experience " \o Title(keyword) \o " Today"

\* _generate_headline(config, insights, framework)
GenerateHeadline(cfg, ins, fw) ==
    LET keyword == ChooseKeyword(ins)
        product == HeadlineProduct(cfg)
        audience == Audience(cfg)
    IN  CASE fw = "AIDA" ->
               product \o ": The " \o Title(keyword) \o " Upgrade " \o audience
                   \o " Actually Use"
          [] fw = "PAS" ->
               "Tired of " \o Lower(keyword) \o " Failures? Meet " \o product
          [] fw = "4Ps" ->
               product \o " - " \o Title(keyword) \o " in Every Detail"
          [] fw = "Story" ->
               "How " \o Title(audience) \o " Go From Stuck to Thriving with "
                   \o product
          [] OTHER ->
               product \o ": Experience " \o Title(keyword) \o " Today"

BodyAIDA(base, audience, keyword, desires) ==
    "**Attention**  \n"
        \o Title(audience) \o " are craving " \o Lower(keyword)
        \o " that actually works.\n\n"
        \o "**Interest**  \n"
        \o base \o " is built for " \o audience
        \o " who want less friction and more momentum.\n\n"
        \o "**Desire**  \n"
        \o OrElse(Join(" ", desires), "Imagine a simpler, smoother way to hit your goals.")
        \o "\n\n"
        \o "**Action**  \n"
        \o "Tap the CTA to move from \"thinking about it\" to \"doing it\" today."

BodyPAS(base, audience, keyword, pains) ==
    LET problem ==
            IF pains # <<>> THEN pains[1]
            ELSE "wasting time on tools that don't fit " \o audience
        agitation ==
            IF Len(pains) > 1 THEN pains[2]
            ELSE "your team is tired of trying to duct-tape solutions together"
    IN  "**Problem**  \n"
            \o "You're " \o problem \o ".\n\n"
            \o "**Agitation**  \n"
            \o "And it's not just annoying - " \o agitation \o ".\n\n"
            \o "**Solution**  \n"
            \o base \o " wraps " \o Lower(keyword) \o " around how " \o audience
            \o " already work, so you get results without the chaos."

Body4Ps(base, audience, keyword, desires, platform) ==
    LET desire_line ==
            IF desires # <<>> THEN desires[1]
            ELSE "get consistent, predictable results"
    IN  "**Product**  \n"
            \o base \o " designed specifically for " \o audience \o ".\n\n"
            \o "**Price**  \n"
            \o "Priced so that " \o audience \o " can " \o desire_line
            \o " without blowing the budget.\n\n"
            \o "**Place**  \n"
            \o "Launch in minutes on " \o platform \o ".\n\n"
            \o "**Promotion**  \n"
            \o "Early adopters get our " \o Lower(keyword) \o " playbook free."

ObjectionFallback(audience) == "wondering if this really works for " \o audience

BodyStory(base, audience, pains, desires, objections) ==
    LET obj ==
            IF objections # <<>> THEN objections[1] ELSE ObjectionFallback(audience)
    IN  "**Before**  \n"
            \o Title(audience) \o " were stuck "
            \o (IF pains # <<>> THEN pains[1] ELSE "juggling tools and tactics")
            \o ".\n\n"
            \o "**Turning Point**  \n"
            \o "They tried " \o base \o " and saw "
            \o (IF desires # <<>> THEN desires[1] ELSE "momentum in days, not months")
            \o ".\n\n"
            \o "**After**  \n"
            \o "Now they "
            \o (IF Len(desires) > 1 THEN desires[2] ELSE "hit goals with less stress")
            \o " - even if they were " \o obj \o " at first."

\* base = config.product_description.strip().capitalize()
BodyBase(cfg) == Capitalize(Strip(cfg.product_description))

\* Mutant of RawBody: an unknown framework gets the description as passed
RawBodyUnknownUntrimmed(cfg, ins, fw) ==
    LET keyword == ChooseKeyword(ins)
        pains == Take(ins.pains, 2)
        desires == Take(ins.desires, 2)
        objections == Take(ins.objections, 1)
        base == BodyBase(cfg)
        audience == Audience(cfg)
    IN  CASE fw = "AIDA" -> BodyAIDA(base, audience, keyword, desires)
          [] fw = "PAS" -> BodyPAS(base, audience, keyword, pains)
          [] fw = "4Ps" -> Body4Ps(base, audience, keyword, desires, cfg.platform)
          [] fw = "Story" -> BodyStory(base, audience, pains, desires, objections)
          [] OTHER -> cfg.product_description

\* the body of _generate_body before the readability pass
RawBody(cfg, ins, fw) ==
    LET keyword == ChooseKeyword(ins)
        pains == Take(ins.pains, 2)
        desires == Take(ins.desires, 2)
        objections == Take(ins.objections, 1)
        base == BodyBase(cfg)
        audience == Audience(cfg)
    IN  CASE fw = "AIDA" -> BodyAIDA(base, audience, keyword, desires)
          [] fw = "PAS" -> BodyPAS(base, audience, keyword, pains)
          [] fw = "4Ps" -> Body4Ps(base, audience, keyword, desires, cfg.platform)
          [] fw = "Story" -> BodyStory(base, audience, pains, desires, objections)
          [] OTHER -> base

\* _generate_body(config, insights, framework)
GenerateBody(cfg, ins, fw) == SimplifyTextLevel(RawBody(cfg, ins, fw), cfg.voice_style)

\* _generate_short_link(framework)
GenerateShortLink(fw) ==
    "https://deepads.io/" \o Replace(Lower(fw), " ", "-") \o "-campaign"

\* _generate_ltx_prompt(config, variant, insights)
GenerateLtxPrompt(cfg, variant, ins) ==
    LET aspect == SuggestAspectRatio(cfg.platform)
        audience == OrElse(cfg.target_audience, "ideal customers")
        pains == OrElse(Join(", ", Take(ins.pains, 3)), "their current frustrations")
        desires == OrElse(Join(", ", Take(ins.desires, 3)), "the outcome they want")
    IN  Strip(
          "\nVideo ad for " \o cfg.platform \o " in " \o aspect \o " aspect ratio.\n\n"
            \o "Scene 1 (Hook): \n"
            \o "- Visual: Close-up of " \o audience \o " dealing with " \o pains \o ".\n"
            \o "- On-screen text: \"" \o variant.headline \o "\"\n\n"
            \o "Scene 2 (Solution):\n"
            \o "- Visual: " \o Prefix(cfg.product_description, 120)
            \o " in action, clear UI/product shots.\n"
            \o "- On-screen text: Short benefit bullets highlighting " \o desires \o ".\n\n"
            \o "Scene 3 (CTA):\n"
            \o "- Visual: Clean end card with logo and simple background.\n"
            \o "- On-screen text: \"" \o variant.cta \o "\"\n\n"
            \o "Style: "
            \o OrElse(Join(", ", cfg.brand_personality), "clean, modern, trustworthy")
            \o ".\n"
            \o "Tone: " \o cfg.tone \o ".\n")

\* Mutant of DefaultedConfig: an empty frameworks list is left empty
DefaultedConfigKeepsEmpty(cfg) == cfg

\* if not config.frameworks: config.frameworks = ["AIDA"]
\* (the assignment is to the caller's AdConfig object)
DefaultedConfig(cfg) ==
    IF cfg.frameworks = <<>> THEN [cfg EXCEPT !.frameworks = <<DEFAULT_FRAMEWORK>>]
    ELSE cfg

\* one pass of the loop body of generate_ad_variants_with_alex
BuildVariant(cfg, ins, fw) ==
    LET draft == AdVariant(fw, GenerateHeadline(cfg, ins, fw), GenerateBody(cfg, ins, fw),
                           ChooseCta(cfg), GenerateShortLink(fw), "")
    IN  [draft EXCEPT !.ltx_prompt = GenerateLtxPrompt(cfg, draft, ins)]

\* Mutant of VariantLoop: a framework that already has a variant is skipped
RECURSIVE VariantLoopDedup(_, _, _, _)
VariantLoopDedup(cfg, ins, i, acc) ==
    IF i > Len(cfg.frameworks) THEN acc
    ELSE VariantLoopDedup(cfg, ins, i + 1,
             IF \E k \in DOMAIN acc : acc[k].framework = cfg.frameworks[i] THEN acc
             ELSE Append(acc, BuildVariant(cfg, ins, cfg.frameworks[i])))

\* for fw in config.frameworks: ...; variants.append(draft)
RECURSIVE VariantLoop(_, _, _, _)
VariantLoop(cfg, ins, i, acc) ==
    IF i > Len(cfg.frameworks) THEN acc
    ELSE VariantLoop(cfg, ins, i + 1,
                     Append(acc, BuildVariant(cfg, ins, cfg.frameworks[i])))

\* the list returned by generate_ad_variants_with_alex(config, insights)
GenerateAdVariants(cfg, ins) == VariantLoop(DefaultedConfig(cfg), ins, 1, <<>>)

\* xs[i], i >= 0, raises IndexError
IndexError(xs, i) == i >= Len(xs)

\* Mutant of ChooseKeywordRaises: top_keywords[0] is read without the test
ChooseKeywordRaisesUntested(ins) == IndexError(ins.top_keywords, 0)

\* _choose_keyword raises: insights.top_keywords[0] if insights.top_keywords
ChooseKeywordRaises(ins) == ins.top_keywords # <<>> /\ IndexError(ins.top_keywords, 0)

\* _generate_body raises: the subscripts of the three slices, each under the
\* test that guards it
GenerateBodyRaises(ins, fw) ==
    LET pains == Take(ins.pains, 2)
        desires == Take(ins.desires, 2)
        objections == Take(ins.objections, 1)
    IN  \/ ChooseKeywordRaises(ins)
        \/ CASE fw = "PAS" ->
                   \/ pains # <<>> /\ IndexError(pains, 0)
                   \/ Len(pains) > 1 /\ IndexError(pains, 1)
              [] fw = "4Ps" -> desires # <<>> /\ IndexError(desires, 0)
              [] fw = "Story" ->
                   \/ objections # <<>> /\ IndexError(objections, 0)
                   \/ pains # <<>> /\ IndexError(pains, 0)
                   \/ desires # <<>> /\ IndexError(desires, 0)
                   \/ Len(desires) > 1 /\ IndexError(desires, 1)
              [] OTHER -> FALSE

\* generate_ad_variants_with_alex raises: some pass of the loop does, in
\* _generate_headline (its _choose_keyword) or in _generate_body; the other
\* helpers subscript nothing and look their dicts up with .get
GenerateRaises(cfg, ins) ==
    \E k \in DOMAIN DefaultedConfig(cfg).frameworks :
        \/ ChooseKeywordRaises(ins)
        \/ GenerateBodyRaises(ins, DefaultedConfig(cfg).frameworks[k])

----------------------------------------------------------------------------
(* Callers of the research engine: every (product description, corpus) pair *)
(* of a bounded family is analysed once.                                    *)

\* Bounds of the input families
MaxLines == 2
MaxWords == 16

NoConfig == [none |-> TRUE]

\* The sidebar widgets as a fresh session shows them
DefaultForm ==
    [target_audience |-> "", platform |-> "Facebook", objective |-> "Awareness",
     tone |-> "Friendly", brand_personality |-> <<"Trusted">>,
     voice_style |-> "Balanced", frameworks |-> <<"AIDA", "PAS", "4Ps">>,
     cta_label |-> "Default for Objective", custom_cta |-> ""]

\* Corpus lines: a pain, a desire, an objection, a padded line in all three
\* buckets, a line in none, a whitespace-only line, an empty line, and a
\* desire line that repeats a word of the keyword texts
VocLines ==
    <<"I'm tired of bottles that leak everywhere",
      "I want cold drinks; need COLD drinks",
      "Not sure it works",
      "  Worried: I HATE leaks and wish for cold bottles  ",
      "Great bottle",
      " \t ",
      "",
      "k03 k03 dream">>

RECURSIVE SeqsUpTo(_, _)
SeqsUpTo(S, n) ==
    IF n = 0 THEN {<<>>}
    ELSE LET shorter == SeqsUpTo(S, n - 1)
         IN  shorter \cup {Append(q, x) : q \in shorter, x \in S}

\* voc_text values: up to MaxLines library lines joined by line feeds
Corpora == {Join("\n", [k \in DOMAIN q |-> VocLines[q[k]]]) :
                q \in SeqsUpTo(DOMAIN VocLines, MaxLines)}

\* k01, k02, ...
Word(i) == "k" \o Char(DIGITS, (i \div 10) + 1) \o Char(DIGITS, (i % 10) + 1)

\* n distinct words, all of them again, then words k..n a third time:
\* words k..n occur three times, words 1..k-1 twice
KeywordText(n, k) ==
    Join(" ", [i \in 1..n |-> Word(i)] \o [i \in 1..n |-> Word(i)]
                  \o [i \in 1..(n + 1 - k) |-> Word(k + i - 1)])

ProductDescriptions ==
    {"", " ", "A reusable water bottle that keeps drinks cold for 24 hours"}
        \cup {KeywordText(MaxWords, k) : k \in {1, 10, MaxWords + 1}}
        \cup {KeywordText(MaxWords - 1, 1)}

InitResearch ==
    /\ product_description \in ProductDescriptions
    /\ voc_text \in Corpora
    /\ config = NoConfig
    /\ insights = NoInsights
    /\ variants = <<>>
    /\ passed_config = NoConfig
    /\ pc = "ready"
    /\ form = DefaultForm /\ session = NoInsights /\ screen = <<>>

\* insights = analyze_market_text(product_description, voc_text)
Analyze ==
    /\ pc = "ready"
    /\ insights' = AnalyzeMarketText(product_description, voc_text)
    /\ pc' = "analyzed"
    /\ UNCHANGED <<product_description, voc_text, config, variants, passed_config>>
    /\ UNCHANGED app_vars

NextResearch == Analyze

SpecResearch == InitResearch /\ [][NextResearch]_vars

----------------------------------------------------------------------------
(* Callers of the generator: every (AdConfig, ResearchInsights) pair of a   *)
(* bounded family is handed to generate_ad_variants_with_alex once.         *)

\* Bound of the frameworks lists
MaxFrameworks == 3

\* AdConfig(product_description, ..., voice_style)
AdConfig(pd, audience, platform, objective, tone, brand, cta_label, custom_cta, frameworks, voice_style) ==
    [product_description |-> pd, target_audience |-> audience, platform |-> platform,
     objective |-> objective, tone |-> tone, brand_personality |-> brand,
     cta_label |-> cta_label, custom_cta |-> custom_cta, frameworks |-> frameworks,
     voice_style |-> voice_style]

\* The four frameworks of the generator and a name it does not know
FrameworkNames == <<"AIDA", "PAS", "4Ps", "Story", "Banner Ad">>

\* frameworks values: every list of up to MaxFrameworks names, repeats included
FrameworkLists ==
    {[k \in DOMAIN q |-> FrameworkNames[q[k]]] :
         q \in SeqsUpTo(DOMAIN FrameworkNames, MaxFrameworks)}

\* The objectives of the app and one the mapping does not know
Objectives == {"Awareness", "Traffic", "Conversion", "Lead Gen", "Retention", "Sales"}
CtaLabels == {DEFAULT_CTA_LABEL, "Shop Now", "Book a Demo"}
CustomCtas == {"", " \n ", "  Start your free trial "}

\* The other fields and the insights, three ways: the app's defaults with the
\* insights of an analysis; a blank description with empty insights and a
\* custom CTA; jargon words, an audience, an explicit CTA label and insights
\* with several entries per list
Profiles ==
    {[pd |-> "A reusable water bottle that keeps drinks cold for 24 hours",
      audience |-> "", platform |-> "Facebook", tone |-> "Friendly",
      brand |-> <<"Trusted">>, voice_style |-> "Balanced",
      cta_label |-> DEFAULT_CTA_LABEL, custom_cta |-> "",
      insights |->
          AnalyzeMarketText("A reusable water bottle that keeps drinks cold for 24 hours",
                            "I'm tired of bottles that leak everywhere")],
     [pd |-> "", audience |-> "busy parents", platform |-> "Podcast", tone |-> "Bold",
      brand |-> <<>>, voice_style |-> "Very Simple",
      cta_label |-> "Shop Now", custom_cta |-> "  Start your free trial ",
      insights |-> ResearchInsights(<<>>, <<>>, <<>>, <<>>, "")],
     [pd |-> "  we optimize your Conversion experience  ", audience |-> "saaS founders",
      platform |-> "TikTok", tone |-> "Professional",
      brand |-> <<"Playful", "Minimal">>, voice_style |-> "Technical",
      cta_label |-> "Book a Demo", custom_cta |-> "",
      insights |->
          ResearchInsights(<<"cold-brew", "leaks">>,
                           <<"tired of leaks", "I hate warm drinks", "annoyed">>,
                           <<"want cold drinks", "need less mess", "wish", "dream">>,
                           <<"not sure it works", "afraid of the price">>,
                           "raw notes")]}

ProfileConfig(p, objective, cta_label, custom_cta, frameworks) ==
    AdConfig(p.pd, p.audience, p.platform, objective, p.tone, p.brand, cta_label,
             custom_cta, frameworks, p.voice_style)

\* Every frameworks list with every profile
FrameworkSweep ==
    {[config |-> ProfileConfig(p, "Conversion", p.cta_label, p.custom_cta, fws),
      insights |-> p.insights] :
         p \in Profiles, fws \in FrameworkLists}

\* Every combination of objective, CTA selector and custom CTA
CtaSweep ==
    {[config |-> ProfileConfig(p, o, l, c, fws), insights |-> p.insights] :
         p \in Profiles, o \in Objectives, l \in CtaLabels, c \in CustomCtas,
         fws \in {<<>>, <<"PAS", "Story">>}}

\* The voice styles of the select slider
VoiceStyles == {"Very Simple", "Simple", "Balanced", "Technical"}

\* Product descriptions for the readability pass: empty; already trimmed and
\* capitalized, without jargon; padded, with jargon words in both letter
\* cases; capitals past the first letter; a jargon word running into another
VoiceDescriptions ==
    {"",
     "A reusable water bottle that keeps drinks cold for 24 hours",
     "  we optimize your Conversion experience  ",
     "Acme CRM helps teams leverage data",
     "we optimizexperience daily"}

\* Every voice style with every description, for the four frameworks and two
\* names the generator does not know, with empty and with filled insights
VoiceSweep ==
    {[config |-> AdConfig(pd, p.audience, p.platform, "Traffic", p.tone, p.brand,
                          p.cta_label, p.custom_cta, fws, vs),
      insights |-> p.insights] :
         pd \in VoiceDescriptions, vs \in VoiceStyles,
         fws \in {<<"Banner Ad">>, <<"AIDA", "PAS", "4Ps">>, <<"Story", "Carousel">>},
         p \in {q \in Profiles : q.pd = "" \/ q.platform = "TikTok"}}

CopyInputs == FrameworkSweep \cup CtaSweep \cup VoiceSweep

InitCopy ==
    /\ product_description = ""
    /\ voc_text = ""
    /\ \E in \in CopyInputs : config = in.config /\ insights = in.insights
    /\ variants = <<>>
    /\ passed_config = NoConfig
    /\ pc = "ready"
    /\ form = DefaultForm /\ session = NoInsights /\ screen = <<>>

\* generate_ad_variants_with_alex(config, insights): the frameworks default
\* is assigned first; an exception of the loop leaves the caller without a
\* list
GenerateCall ==
    /\ passed_config' = config
    /\ config' = DefaultedConfig(config)
    /\ IF GenerateRaises(config, insights)
       THEN variants' = variants /\ pc' = "error"
       ELSE variants' = GenerateAdVariants(config, insights) /\ pc' = "generated"
    /\ UNCHANGED <<product_description, voc_text, insights>>
    /\ UNCHANGED app_vars

\* variants = generate_ad_variants_with_alex(config, insights)
Generate == pc = "ready" /\ GenerateCall

NextCopy == Generate

SpecCopy == InitCopy /\ [][NextCopy]_vars

----------------------------------------------------------------------------
(* The core end to end: a caller analyses a product description and a       *)
(* corpus and hands the insights, with an AdConfig for the same             *)
(* description, to the generator.  The core checks no precondition, so the  *)
(* empty description is an input here.                                      *)

CoreDescriptions ==
    {"", " ", "A reusable water bottle that keeps drinks cold for 24 hours"}

\* Corpora: empty; a pain line; objection and desire lines; blank lines only
CoreCorpora ==
    {"",
     "I'm tired of bottles that leak everywhere",
     "Not sure it works\nI want cold drinks; need COLD drinks\nI wish, I dream",
     " \n\t\n"}

\* Frameworks: none, the four with an unknown name, an unknown name alone
CoreFrameworkLists == {<<>>, <<"AIDA", "PAS", "4Ps", "Story", "Banner Ad">>, <<"">>}

\* The other fields: the app's defaults, and degenerate values (no audience,
\* unknown platform and objective, no brand tags, blank tone)
CoreFields ==
    {[audience |-> "busy parents", platform |-> "Facebook", objective |-> "Conversion",
      tone |-> "Friendly", brand |-> <<"Trusted">>],
     [audience |-> "", platform |-> "Podcast", objective |-> "Sales",
      tone |-> "", brand |-> <<>>]}

InitCore ==
    /\ product_description \in CoreDescriptions
    /\ voc_text \in CoreCorpora
    /\ \E f \in CoreFields, fws \in CoreFrameworkLists, vs \in VoiceStyles :
           config = AdConfig(product_description, f.audience, f.platform, f.objective,
                             f.tone, f.brand, DEFAULT_CTA_LABEL, "", fws, vs)
    /\ insights = NoInsights
    /\ variants = <<>>
    /\ passed_config = NoConfig
    /\ pc = "ready"
    /\ form = DefaultForm /\ session = NoInsights /\ screen = <<>>

\* variants = generate_ad_variants_with_alex(config, insights), with the
\* insights of the analysis
GenerateFromAnalysis == pc = "analyzed" /\ GenerateCall

NextCore == Analyze \/ GenerateFromAnalysis

SpecCore == InitCore /\ [][NextCore]_vars

----------------------------------------------------------------------------
(* app.py: one action per script run.  A run that no button started renders *)
(* the form alone; the local names insights, config and variants of a run   *)
(* are gone when the next run starts.  screen holds what the two button     *)
(* handlers add below the form; the log lines, the stylesheet, the uploaded *)
(* image and the hero picture are left out.                                 *)

\* Choices of the two text areas and of the frameworks multiselect
AppDescriptions ==
    {"", "   ", "A reusable water bottle that keeps drinks cold for 24 hours"}
AppCorpora ==
    {"",
     "I'm tired of bottles that leak everywhere",
     "Not sure it works\nI want cold drinks; need COLD drinks",
     "Great bottle\n  Worried: I HATE leaks and wish for cold bottles  "}
AppFrameworkChoices ==
    {<<>>, <<"AIDA", "PAS", "4Ps">>, <<"Story">>, <<"Story", "AIDA">>}

\* st.markdown(f"- {x}") for x in xs
Bullets(xs) == [k \in DOMAIN xs |-> "- " \o xs[k]]

\* The blocks the Analyze Market handler renders
ResearchView(ins) ==
    <<"#### Key Themes & Signals">>
        \o <<"**Top Keywords**">> \o Bullets(Take(ins.top_keywords, 10))
        \o <<"**Pain Points**">> \o Bullets(Take(ins.pains, 6))
        \o <<"**Desires & Outcomes**">> \o Bullets(Take(ins.desires, 6))
        \o (IF ins.objections # <<>>
            THEN <<"**Common Objections**">> \o Bullets(Take(ins.objections, 6))
            ELSE <<>>)

\* The blocks rendered for one variant (the code-span quotes around the short
\* link are left out)
VariantCard(v, platform, objective) ==
    <<"<span class=\"badge\">" \o v.framework \o "</span>"
          \o "<span class=\"badge\">" \o platform \o "</span>"
          \o "<span class=\"badge\">" \o objective \o "</span>",
      "### " \o v.headline,
      v.body,
      "**CTA:** " \o v.cta,
      "*Short link:* " \o v.short_link,
      "**LTX Studio Prompt**",
      v.ltx_prompt>>

RECURSIVE VariantCards(_, _, _, _)
VariantCards(vs, platform, objective, i) ==
    IF i > Len(vs) THEN <<>>
    ELSE VariantCard(vs[i], platform, objective)
             \o VariantCards(vs, platform, objective, i + 1)

\* The blocks the Generate Ads handler renders after a generation
AdsView(vs, platform, objective) ==
    VariantCards(vs, platform, objective, 1)
        \o <<"Ads generated. Copy, tweak, and plug into your ad platforms (and LTX Studio).">>

ERROR_NO_DESCRIPTION == "Please enter a product / offer description in the sidebar."

\* x or y, for two lists
OrElseList(x, y) == IF x # <<>> THEN x ELSE y

\* config = AdConfig(product_description=product_description, ...,
\*                   frameworks=frameworks or ["AIDA"], ...)
FormConfig(pd, f) ==
    AdConfig(pd, f.target_audience, f.platform, f.objective, f.tone,
             f.brand_personality, f.cta_label, f.custom_cta,
             OrElseList(f.frameworks, <<"AIDA">>), f.voice_style)

\* Mutant of SessionInsights: the fresh analysis is used whatever is stored
SessionInsightsFresh(pd, corpus) == AnalyzeMarketText(pd, OrElse(corpus, ""))

\* st.session_state.get("research_insights", analyze_market_text(...))
SessionInsights(pd, corpus) ==
    IF session # NoInsights THEN session ELSE AnalyzeMarketText(pd, OrElse(corpus, ""))

InitApp ==
    /\ product_description = ""
    /\ voc_text = ""
    /\ form = DefaultForm
    /\ session = NoInsights
    /\ screen = <<>>
    /\ config = NoConfig
    /\ insights = NoInsights
    /\ variants = <<>>
    /\ passed_config = NoConfig
    /\ pc = "form"

\* A run that no button started
PlainRun ==
    /\ screen' = <<>>
    /\ config' = NoConfig
    /\ insights' = NoInsights
    /\ variants' = <<>>
    /\ passed_config' = NoConfig
    /\ pc' = "form"
    /\ UNCHANGED session

\* The user edits the product description
EditDescription ==
    /\ \E t \in AppDescriptions : t # product_description /\ product_description' = t
    /\ PlainRun
    /\ UNCHANGED <<voc_text, form>>

\* The user edits the voice-of-customer text
EditCorpus ==
    /\ \E t \in AppCorpora : t # voc_text /\ voc_text' = t
    /\ PlainRun
    /\ UNCHANGED <<product_description, form>>

\* The user changes the frameworks multiselect
SelectFrameworks ==
    /\ \E fws \in AppFrameworkChoices :
           fws # form.frameworks /\ form' = [form EXCEPT !.frameworks = fws]
    /\ PlainRun
    /\ UNCHANGED <<product_description, voc_text>>

\* if st.button("Analyze Market"): ...
ClickAnalyze ==
    /\ insights' = AnalyzeMarketText(product_description, voc_text)
    /\ session' = insights'
    /\ screen' = ResearchView(insights')
    /\ config' = NoConfig
    /\ variants' = <<>>
    /\ passed_config' = NoConfig
    /\ pc' = "analyzed"
    /\ UNCHANGED <<product_description, voc_text, form>>

\* if generate_clicked: if not product_description.strip(): st.error(...)
GenerateRejected ==
    /\ Strip(product_description) = ""
    /\ screen' = <<ERROR_NO_DESCRIPTION>>
    /\ config' = NoConfig
    /\ insights' = NoInsights
    /\ variants' = <<>>
    /\ passed_config' = NoConfig
    /\ pc' = "rejected"
    /\ UNCHANGED <<product_description, voc_text, form, session>>

\* Mutant of GenerateAccepted: the description is tested without .strip()
GenerateAcceptedUnstripped ==
    /\ product_description # ""
    /\ insights' = SessionInsights(product_description, voc_text)
    /\ passed_config' = FormConfig(product_description, form)
    /\ config' = DefaultedConfig(passed_config')
    /\ variants' = GenerateAdVariants(passed_config', insights')
    /\ screen' = AdsView(variants', form.platform, form.objective)
    /\ pc' = "generated"
    /\ UNCHANGED <<product_description, voc_text, form, session>>

\* if generate_clicked: ... else: insights = ...; config = AdConfig(...);
\* variants = generate_ad_variants_with_alex(config, insights); render
GenerateAccepted ==
    /\ Strip(product_description) # ""
    /\ insights' = SessionInsights(product_description, voc_text)
    /\ passed_config' = FormConfig(product_description, form)
    /\ config' = DefaultedConfig(passed_config')
    /\ variants' = GenerateAdVariants(passed_config', insights')
    /\ screen' = AdsView(variants', form.platform, form.objective)
    /\ pc' = "generated"
    /\ UNCHANGED <<product_description, voc_text, form, session>>

\* The Generate Ads button
ClickGenerate == GenerateRejected \/ GenerateAccepted

NextApp ==
    \/ EditDescription
    \/ EditCorpus
    \/ SelectFrameworks
    \/ ClickAnalyze
    \/ ClickGenerate

SpecApp == InitApp /\ [][NextApp]_vars

----------------------------------------------------------------------------
(* Properties of the research engine, checked under SpecResearch           *)

\* The tokens of the product description followed by the corpus
SourceTokens == Tokenize(product_description \o "\n" \o voc_text)

\* How often each token of toks occurs in it
Frequency(toks) ==
    [w \in {toks[i] : i \in DOMAIN toks} |-> Cardinality({i \in DOMAIN toks : toks[i] = w})]

\* Where each token of toks occurs first
FirstSeen(toks) ==
    [w \in {toks[i] : i \in DOMAIN toks} |-> Min({i \in DOMAIN toks : toks[i] = w})]

\* The tokens that occur more than once
FrequentTokens(freq) == {w \in DOMAIN freq : freq[w] > 1}

\* a ranks before b: higher frequency, or equal frequency and seen first
RanksBefore(a, b, freq, first) ==
    \/ freq[a] > freq[b]
    \/ freq[a] = freq[b] /\ first[a] < first[b]

KeywordsBoundedFrequent(kw, freq) ==
    /\ Len(kw) <= 15
    /\ \A i, j \in DOMAIN kw : i # j => kw[i] # kw[j]
    /\ \A i \in DOMAIN kw :
           /\ kw[i] \notin STOPWORDS
           /\ kw[i] \in DOMAIN freq
           /\ freq[kw[i]] > 1
    /\ (FrequentTokens(freq) = {} => kw = <<>>)

\* C7: top_keywords has at most 15 entries, no duplicate and no stopword, and
\* every entry occurs more than once among the tokens of product description
\* and corpus; when no token occurs more than once the list is empty.
C7_KeywordsBoundedFrequent ==
    pc = "analyzed" =>
        KeywordsBoundedFrequent(insights.top_keywords, Frequency(SourceTokens))

TruncatedKeywords(kw, freq) ==
    /\ Cardinality(FrequentTokens(freq)) > 15
    /\ Len(kw) = 15
    /\ \E w \in DOMAIN freq : freq[w] = 1

\* C7 witness: more than 15 tokens occur twice or more and 15 are returned,
\* while some token of the text that occurs once is left out.
C7_Witness ==
    pc = "analyzed" /\ TruncatedKeywords(insights.top_keywords, Frequency(SourceTokens))

KeywordsRankedPrefix(kw, freq, first) ==
    LET n == Cardinality(FrequentTokens(freq))
    IN  /\ \A i, j \in DOMAIN kw : i < j => RanksBefore(kw[i], kw[j], freq, first)
        /\ Len(kw) = (IF n < 15 THEN n ELSE 15)
        /\ \A t \in FrequentTokens(freq) :
               (\A i \in DOMAIN kw : kw[i] # t) =>
                   \A i \in DOMAIN kw : RanksBefore(kw[i], t, freq, first)

\* C8: top_keywords is ordered by descending frequency, ties by first
\* occurrence, and is the prefix of length min(15, number of tokens with
\* count > 1) of that ranking: no token left out ranks before a returned one.
C8_KeywordsRankedPrefix ==
    pc = "analyzed" =>
        KeywordsRankedPrefix(insights.top_keywords, Frequency(SourceTokens),
                             FirstSeen(SourceTokens))

RankingDecides(kw, freq, first) ==
    /\ Len(kw) = 15
    /\ \E t \in FrequentTokens(freq) : \A i \in DOMAIN kw : kw[i] # t
    /\ \E i, j \in DOMAIN kw : i < j /\ first[kw[i]] > first[kw[j]]
    /\ \E i \in DOMAIN kw : i + 1 \in DOMAIN kw /\ freq[kw[i]] = freq[kw[i + 1]]

\* C8 witness: a frequent token is left out of a full list in which a
\* later-seen word precedes an earlier-seen one (frequency decides) and two
\* neighbours have equal frequency (first occurrence decides).
C8_Witness ==
    /\ pc = "analyzed"
    /\ RankingDecides(insights.top_keywords, Frequency(SourceTokens),
                      FirstSeen(SourceTokens))

\* The positions of the lines that contain a trigger of the given bucket
MatchedLineNumbers(lines, triggers) ==
    {k \in DOMAIN lines : AnyTrigger(lines[k], triggers)}

\* bucket holds the matched lines and nothing else
HoldsOnlyMatches(bucket, lines, matched) ==
    /\ Len(bucket) = Cardinality(matched)
    /\ \A i \in DOMAIN bucket : \E k \in matched : bucket[i] = lines[k]

\* bucket holds one sentence, the synthesized one, which quotes the product
\* description (its first 80 characters)
HoldsOnlyFallback(bucket, sentence) ==
    /\ Len(bucket) = 1
    /\ bucket[1] = sentence
    /\ Contains(bucket[1], Prefix(product_description, 80))

BucketDecidedAlone(bucket, lines, matched, sentence) ==
    /\ bucket # <<>>
    /\ IF matched = {} THEN HoldsOnlyFallback(bucket, sentence)
       ELSE HoldsOnlyMatches(bucket, lines, matched)

\* C9: with a non-empty product description, pains and desires are both
\* non-empty; a bucket without a matching corpus line holds exactly the one
\* synthesized sentence, a bucket with a matching line holds the matching
\* lines and no synthesized sentence, each bucket decided on its own.
C9_FallbackPerBucket ==
    (pc = "analyzed" /\ product_description # "") =>
        /\ BucketDecidedAlone(insights.pains, CorpusLines(voc_text),
               MatchedLineNumbers(CorpusLines(voc_text), PAIN_TRIGGERS),
               "People struggle to get consistent results with current solutions for "
                   \o Prefix(product_description, 80) \o "...")
        /\ BucketDecidedAlone(insights.desires, CorpusLines(voc_text),
               MatchedLineNumbers(CorpusLines(voc_text), DESIRE_TRIGGERS),
               "They want a simpler, faster way to benefit from "
                   \o Prefix(product_description, 80) \o ".")

\* C9 witness: a product description longer than 80 characters, a corpus with
\* a pain line and no desire line: pains holds the line, desires the fallback.
C9_Witness ==
    /\ pc = "analyzed"
    /\ Len(product_description) > 80
    /\ MatchedLineNumbers(CorpusLines(voc_text), PAIN_TRIGGERS) # {}
    /\ MatchedLineNumbers(CorpusLines(voc_text), DESIRE_TRIGGERS) = {}
    /\ Len(insights.desires) = 1
    /\ insights.pains[1] = "I'm tired of bottles that leak everywhere"

\* line holds phrase at some position, letter case aside
HoldsPhrase(line, phrase) ==
    \E i \in 1..(Len(line) - Len(phrase) + 1) :
        \A j \in 1..Len(phrase) : LowerChar(Char(line, i + j - 1)) = Char(phrase, j)

\* the line holds at least one phrase of the set
HoldsSomePhrase(line, phrases) == \E t \in phrases : HoldsPhrase(line, t)

\* the corpus lines (split at line feeds) that are not blank, trimmed
TrimmedLines(corpus) ==
    LET nonblank == SelectSeq(SplitLines(corpus),
                              LAMBDA l : \E i \in 1..Len(l) : ~IsSpace(Char(l, i)))
    IN  [k \in DOMAIN nonblank |-> Strip(nonblank[k])]

\* the lines of a bucket that are corpus lines: all of it, unless the bucket
\* is the one synthesized sentence standing in for an empty match list
MatchedLines(bucket, lines, phrases) ==
    IF \E k \in DOMAIN lines : HoldsSomePhrase(lines[k], phrases) THEN bucket
    ELSE SelectSeq(bucket, LAMBDA b : \E k \in DOMAIN lines : lines[k] = b)

\* matched is the lines that hold a phrase of the set, in corpus order and
\* as written
ExactlyTheLinesWith(matched, lines, phrases) ==
    matched = SelectSeq(lines, LAMBDA l : HoldsSomePhrase(l, phrases))

PainPhrases ==
    {"frustrated", "tired of", "annoyed", "hate", "sick of", "doesn't work",
     "does not work"}
DesirePhrases == {"want", "wish", "would love", "looking for", "need", "dream"}
ObjectionPhrases == {"worried", "not sure", "concerned", "skeptical", "afraid"}

\* xs has an element equal to x
Among(xs, x) == \E k \in DOMAIN xs : xs[k] = x

\* C11: classification is per line and not exclusive: in each of pains,
\* desires and objections the matched lines are exactly the non-blank trimmed
\* corpus lines that hold a trigger phrase of that bucket, letter case aside,
\* in corpus order and verbatim; a line with triggers of several buckets is in
\* each of them, a line with no trigger is in none.
C11_PerLineNotExclusive ==
    pc = "analyzed" =>
        LET lines == TrimmedLines(voc_text)
            p == MatchedLines(insights.pains, lines, PainPhrases)
            d == MatchedLines(insights.desires, lines, DesirePhrases)
            o == MatchedLines(insights.objections, lines, ObjectionPhrases)
        IN  /\ ExactlyTheLinesWith(p, lines, PainPhrases)
            /\ ExactlyTheLinesWith(d, lines, DesirePhrases)
            /\ ExactlyTheLinesWith(o, lines, ObjectionPhrases)
            /\ \A k \in DOMAIN lines :
                   /\ HoldsSomePhrase(lines[k], PainPhrases) <=> Among(p, lines[k])
                   /\ HoldsSomePhrase(lines[k], DesirePhrases) <=> Among(d, lines[k])
                   /\ HoldsSomePhrase(lines[k], ObjectionPhrases) <=> Among(o, lines[k])

\* C11 witness: the corpus was a padded line with an upper-case pain trigger,
\* a desire trigger and an objection trigger, then a line with no trigger: the
\* first is in all three buckets, trimmed, the second in none.
C11_Witness ==
    /\ pc = "analyzed"
    /\ voc_text = "  Worried: I HATE leaks and wish for cold bottles  \nGreat bottle"
    /\ insights.pains = <<"Worried: I HATE leaks and wish for cold bottles">>
    /\ insights.desires = insights.pains
    /\ insights.objections = insights.pains

----------------------------------------------------------------------------
(* Properties of the generator, checked under SpecCopy                     *)

\* The frameworks list as the caller passed it
Requested == passed_config.frameworks

\* The number of distinct names in a list
DistinctCount(xs) == Cardinality({xs[i] : i \in DOMAIN xs})

\* C1: for a non-empty frameworks list the result has exactly len(frameworks)
\* variants and the i-th variant's framework is the i-th requested one; a
\* framework requested k times yields k variants.
C1_OneVariantPerRequestInOrder ==
    (pc = "generated" /\ Requested # <<>>) =>
        /\ Len(variants) = Len(Requested)
        /\ \A i \in DOMAIN Requested : variants[i].framework = Requested[i]

\* C1 witness: a list of three that names one framework twice around another.
C1_Witness ==
    /\ pc = "generated"
    /\ Len(Requested) = 3
    /\ Requested[1] = Requested[3]
    /\ Requested[1] # Requested[2]
    /\ Len(variants) = 3

\* C2 as claimed: the number of variants equals the number of distinct
\* frameworks requested (and is at least one), also for lists with repeats.
C2_CountIsDistinctFrameworks ==
    pc = "generated" =>
        Len(variants) = (IF DistinctCount(Requested) = 0 THEN 1
                         ELSE DistinctCount(Requested))

\* C2 as amended: the number of variants equals the length of the frameworks
\* list, repeats counted, and is one for the empty list; it is the number of
\* distinct frameworks exactly when no name is repeated.
C2_CountIsListLength ==
    pc = "generated" =>
        /\ Len(variants) = (IF Len(Requested) = 0 THEN 1 ELSE Len(Requested))
        /\ Len(variants) >= 1
        /\ (DistinctCount(Requested) = Len(Requested) =>
                Len(variants) = (IF DistinctCount(Requested) = 0 THEN 1
                                 ELSE DistinctCount(Requested)))

\* C2 witness: more variants were returned than distinct frameworks requested.
C2_Witness ==
    /\ pc = "generated"
    /\ DistinctCount(Requested) >= 1
    /\ Len(variants) > DistinctCount(Requested)

\* s ends with tail
EndsWith(s, tail) == Len(tail) <= Len(s) /\ Suffix(s, Len(s) - Len(tail) + 1) = tail

\* The fixed parts of the AIDA headline and body templates
IsAidaHeadline(h) ==
    /\ Contains(h, ": The ")
    /\ Contains(h, " Upgrade ")
    /\ EndsWith(h, " Actually Use")
IsAidaBody(b) ==
    /\ StartsAt(b, "**Attention**  \n", 1)
    /\ Contains(b, " are craving ")
    /\ Contains(b, "\n\n**Interest**  \n")
    /\ Contains(b, "\n\n**Desire**  \n")
    /\ Contains(b, "\n\n**Action**  \nTap the CTA to move from ")

\* C3: with an empty frameworks list the result is exactly one variant, for
\* the default framework "AIDA", with the AIDA headline and body templates
\* (the variants an explicit request for AIDA yields).
C3_EmptyListYieldsAida ==
    (pc = "generated" /\ Requested = <<>>) =>
        /\ Len(variants) = 1
        /\ variants[1].framework = "AIDA"
        /\ IsAidaHeadline(variants[1].headline)
        /\ IsAidaBody(variants[1].body)
        /\ variants = GenerateAdVariants([passed_config EXCEPT !.frameworks = <<"AIDA">>],
                                         insights)

\* C3 witness: the generator returned from a call with an empty list.
C3_Witness ==
    /\ pc = "generated"
    /\ Requested = <<>>
    /\ Len(variants) = 1
    /\ variants[1].short_link = "https://deepads.io/aida-campaign"

\* C4 as claimed: the call leaves every field of the AdConfig (frameworks
\* included) and of the ResearchInsights as it was, also for an AdConfig with
\* an empty frameworks list.
C4_InputsUnchanged ==
    [][(pc = "ready" /\ pc' = "generated") => (config' = config /\ insights' = insights)]_vars

\* t is s without its leading and trailing whitespace
IsTrimOf(t, s) ==
    \E i \in 1..(Len(s) + 1) :
        /\ i + Len(t) - 1 <= Len(s)
        /\ SubSeq(s, i, i + Len(t) - 1) = t
        /\ \A j \in 1..(i - 1) : Char(s, j) \in {" ", "\n", "\t", "\r"}
        /\ \A j \in (i + Len(t))..Len(s) : Char(s, j) \in {" ", "\n", "\t", "\r"}
        /\ (t # "" => /\ Char(t, 1) \notin {" ", "\n", "\t", "\r"}
                      /\ Char(t, Len(t)) \notin {" ", "\n", "\t", "\r"})

\* s consists of whitespace only (it is empty after trimming)
IsBlank(s) == \A j \in 1..Len(s) : Char(s, j) \in {" ", "\n", "\t", "\r"}

\* C5: when the custom CTA is non-empty after trimming, the CTA of every
\* variant is the trimmed custom CTA, whatever the selector and the objective.
C5_CustomCtaWins ==
    (pc = "generated" /\ ~IsBlank(passed_config.custom_cta)) =>
        \A i \in DOMAIN variants : IsTrimOf(variants[i].cta, passed_config.custom_cta)

\* C5 witness: a padded custom CTA beside an explicit selector, two variants.
C5_Witness ==
    /\ pc = "generated"
    /\ passed_config.custom_cta = "  Start your free trial "
    /\ passed_config.cta_label = "Book a Demo"
    /\ passed_config.objective = "Retention"
    /\ Len(variants) = 2
    /\ variants[2].cta = "Start your free trial"

\* The objective -> label table of the claim
MappedLabel(objective) ==
    CASE objective \in {"Awareness", "Traffic"} -> "Learn More"
      [] objective = "Conversion" -> "Shop Now"
      [] objective = "Lead Gen" -> "Get Started"
      [] objective = "Retention" -> "See What's New"
      [] OTHER -> "Learn More"

\* C6: when the custom CTA is empty after trimming, the CTA is the label
\* mapped from the objective if the selector is the default sentinel, and
\* the selector's label verbatim otherwise, whatever the objective.
C6_DefaultOrVerbatimCta ==
    (pc = "generated" /\ IsBlank(passed_config.custom_cta)) =>
        \A i \in DOMAIN variants :
            variants[i].cta =
                (IF passed_config.cta_label = "Default for Objective"
                 THEN MappedLabel(passed_config.objective)
                 ELSE passed_config.cta_label)

\* C6 witness: a whitespace-only custom CTA, the default sentinel and the
\* Retention objective.
C6_Witness ==
    /\ pc = "generated"
    /\ passed_config.custom_cta = " \n "
    /\ passed_config.cta_label = "Default for Objective"
    /\ passed_config.objective = "Retention"
    /\ Len(variants) = 2
    /\ variants[1].cta = "See What's New"

----------------------------------------------------------------------------
(* Properties of the app's handlers, checked under SpecApp                 *)

\* Some line of the corpus contains one of the objection phrases, in any case
SomeObjectionLine(corpus) ==
    \E k \in DOMAIN SplitLines(corpus) :
        \E t \in {"worried", "not sure", "concerned", "skeptical", "afraid"} :
            Contains(Lower(SplitLines(corpus)[k]), t)

\* xs has an element equal to x
Shows(xs, x) == \E k \in DOMAIN xs : xs[k] = x

\* C10: objections get no fallback: the objections list of an analysis is
\* empty exactly when no corpus line contains an objection trigger, whatever
\* the product description; an empty list is no error for the callers: the
\* app leaves the objections section out, and a generation from such insights
\* returns its variants, the Story body with the fallback text.
C10_ObjectionsNoFallback ==
    /\ pc = "analyzed" =>
           /\ (insights.objections = <<>>) <=> ~SomeObjectionLine(voc_text)
           /\ Shows(screen, "**Common Objections**") <=> (insights.objections # <<>>)
           /\ Shows(screen, "**Pain Points**")
    /\ (pc = "generated" /\ insights.objections = <<>>) =>
           /\ Len(variants) = Len(passed_config.frameworks)
           /\ \A i \in DOMAIN variants :
                  /\ Shows(screen, variants[i].body)
                  /\ variants[i].framework = "Story" =>
                         Contains(variants[i].body,
                                  " - even if they were wondering if this really works for ")

\* C10 witness: an analysis of a corpus without objection lines was stored
\* (pains and desires got their fallback, objections stayed empty) and a
\* Story variant was generated from it.
C10_Witness ==
    /\ pc = "generated"
    /\ session # NoInsights
    /\ insights = session
    /\ session.objections = <<>>
    /\ session.raw_notes = ""
    /\ Len(session.pains) = 1
    /\ Len(session.desires) = 1
    /\ \E i \in DOMAIN variants : variants[i].framework = "Story"

----------------------------------------------------------------------------
(* Unknown frameworks, checked under SpecCopy                              *)

KnownFrameworks == {"AIDA", "PAS", "4Ps", "Story"}

\* The generic headline for the configuration and insights of the call
GenericHeadline ==
    LET words == Split(Strip(passed_config.product_description))
        product == IF words = <<>> THEN "Your Product"
                   ELSE Join(" ", SubSeq(words, 1, Min({4, Len(words)})))
        keyword == IF insights.top_keywords = <<>> THEN "innovation"
                   ELSE insights.top_keywords[1]
    IN  product \o ": Experience " \o Title(keyword) \o " Today"

\* The places of the requested list that hold an unknown framework name
UnknownRequests == {k \in DOMAIN Requested : Requested[k] \notin KnownFrameworks}

\* The call returned a variant for the k-th requested name
Returned(k) == k \in DOMAIN variants /\ variants[k].framework = Requested[k]

\* C13 as claimed: for a framework name that is none of the four the call
\* returns a variant whose body is the bare product description and whose
\* headline is the generic headline, for every voice style and description.
C13_UnknownFrameworkBareBody ==
    pc = "generated" =>
        \A i \in UnknownRequests :
               /\ Returned(i)
               /\ variants[i].body = passed_config.product_description
               /\ variants[i].headline = GenericHeadline

\* C13 amended: the body for an unknown framework is the product description
\* trimmed and capitalized (first character upper case, the rest lower case)
\* after the readability pass of the voice style; the headline is the generic
\* headline; the call returns a variant for the name.
C13_UnknownFrameworkBaseBody ==
    pc = "generated" =>
        \A i \in UnknownRequests :
               /\ Returned(i)
               /\ variants[i].body =
                      SimplifyTextLevel(Capitalize(Strip(passed_config.product_description)),
                                        passed_config.voice_style)
               /\ variants[i].headline = GenericHeadline
               /\ passed_config.voice_style = "Balanced" =>
                      variants[i].body = Capitalize(Strip(passed_config.product_description))

\* C13 witness: a variant for an unknown framework was built from a padded
\* description with the Technical voice style: its body is not the
\* description as passed.
C13_Witness ==
    /\ pc = "generated"
    /\ passed_config.voice_style = "Technical"
    /\ passed_config.product_description = "  we optimize your Conversion experience  "
    /\ \E i \in UnknownRequests :
           /\ variants[i].framework = "Banner Ad"
           /\ variants[i].body # passed_config.product_description
           /\ variants[i].headline = "we optimize your Conversion: Experience Cold-Brew Today"

----------------------------------------------------------------------------
(* Totality of the core, checked under SpecCore                            *)

KnownPlatforms ==
    {"Facebook", "Instagram", "TikTok", "YouTube", "LinkedIn", "X (Twitter)", "Display"}
KnownObjectives == {"Awareness", "Traffic", "Conversion", "Lead Gen", "Retention"}

\* The analysis returned a result with its five fields; the corpus is kept,
\* and the buckets that have a fallback are filled whenever there is a
\* description to build it from
AnalysisResult ==
    /\ DOMAIN insights = {"top_keywords", "pains", "desires", "objections", "raw_notes"}
    /\ insights.raw_notes = voc_text
    /\ product_description # "" => insights.pains # <<>> /\ insights.desires # <<>>
    /\ (product_description = "" /\ voc_text = "") =>
           /\ insights.top_keywords = <<>>
           /\ insights.pains = <<>> /\ insights.desires = <<>>
           /\ insights.objections = <<>>

\* The fallback text that stands in for each degenerate input of variant v
FallbacksUsed(v) ==
    LET fw == v.framework
        cfg == passed_config
    IN  /\ v.headline # "" /\ v.cta # "" /\ v.short_link # "" /\ v.ltx_prompt # ""
        /\ (insights.top_keywords = <<>> /\ fw # "Story") =>
               Contains(Lower(v.headline), "innovation")
        /\ Strip(cfg.product_description) = "" => Contains(v.headline, "Your Product")
        /\ cfg.target_audience = "" =>
               /\ fw = "AIDA" => Contains(v.headline, " your audience ")
               /\ fw = "Story" => Contains(v.headline, "How Your Audience Go ")
               /\ Contains(v.ltx_prompt, "Close-up of ideal customers dealing with ")
        /\ insights.pains = <<>> =>
               /\ fw = "PAS" => Contains(v.body, "wasting time on tools that don't fit ")
               /\ fw = "Story" => Contains(v.body, " were stuck juggling tools and tactics.")
               /\ Contains(v.ltx_prompt, " dealing with their current frustrations.")
        /\ insights.desires = <<>> =>
               /\ fw = "AIDA" =>
                      Contains(v.body, "Imagine a simpler, smoother way to hit your goals.")
               /\ fw = "4Ps" => Contains(v.body, " can get consistent, predictable results ")
               /\ fw = "Story" => Contains(v.body, " and saw momentum in days, not months.")
               /\ Contains(v.ltx_prompt, " highlighting the outcome they want.")
        /\ (insights.objections = <<>> /\ fw = "Story") =>
               Contains(v.body, " even if they were wondering if this really works for ")
        /\ cfg.brand_personality = <<>> =>
               Contains(v.ltx_prompt, "Style: clean, modern, trustworthy.")
        /\ cfg.platform \notin KnownPlatforms =>
               Contains(v.ltx_prompt, " in 4:5 aspect ratio.")
        /\ cfg.objective \notin KnownObjectives => v.cta = "Learn More"
        /\ fw \notin {"AIDA", "PAS", "4Ps", "Story"} =>
               /\ Contains(v.headline, ": Experience ")
               /\ EndsWith(v.headline, " Today")

\* C14: the core is total: neither analyze_market_text nor
\* generate_ad_variants_with_alex ends in an error, whatever the input: empty
\* description, empty corpus, empty keyword, pains, desires and objections
\* lists, no brand tags, unknown framework, platform or objective; each call
\* returns a result, built with the fallback value of each degenerate input.
C14_CoreTotal ==
    /\ pc # "error"
    /\ pc \in {"analyzed", "generated"} => AnalysisResult
    /\ pc = "generated" =>
           /\ Len(variants) = IF Requested = <<>> THEN 1 ELSE Len(Requested)
           /\ \A i \in DOMAIN variants : FallbacksUsed(variants[i])

\* C14 witness: the generator returned five variants, one of them for an
\* unknown framework, from an empty description, the empty lists of an
\* analysis of nothing, no audience, no brand tags, an unknown platform and
\* an unknown objective.
C14_Witness ==
    /\ pc = "generated"
    /\ product_description = "" /\ voc_text = ""
    /\ insights.top_keywords = <<>> /\ insights.pains = <<>>
    /\ insights.desires = <<>> /\ insights.objections = <<>>
    /\ passed_config.product_description = ""
    /\ passed_config.target_audience = "" /\ passed_config.brand_personality = <<>>
    /\ passed_config.platform = "Podcast" /\ passed_config.objective = "Sales"
    /\ Len(variants) = 5
    /\ variants[5].framework = "Banner Ad"
    /\ variants[5].headline = "Your Product: Experience Innovation Today"
    /\ variants[5].body = ""

----------------------------------------------------------------------------
(* The readability pass, checked under SpecCopy                            *)

\* The jargon words, lower case and with the first letter capitalized
JargonForms ==
    {"optimize", "conversion", "experience", "leverage",
     "Optimize", "Conversion", "Experience", "Leverage"}

\* The body of the i-th variant as it was before the readability pass
BodyBeforePass(i) == RawBody(passed_config, insights, variants[i].framework)

\* C15 as claimed: with voice style Very Simple or Simple, every body that
\* contains "optimize" comes out of the readability pass containing "improve"
\* and not "optimize", and no body comes out containing a jargon word in lower
\* case or with its first letter capitalized.
C15_JargonReplaced ==
    (pc = "generated" /\ passed_config.voice_style \in {"Very Simple", "Simple"}) =>
        \A i \in DOMAIN variants :
            /\ Contains(BodyBeforePass(i), "optimize") =>
                   /\ Contains(variants[i].body, "improve")
                   /\ ~Contains(variants[i].body, "optimize")
            /\ \A w \in JargonForms : ~Contains(variants[i].body, w)

----------------------------------------------------------------------------
(* The headline templates, checked under SpecCopy                          *)

\* The first four words of the description of the call, or all of them when
\* there are fewer, single spaces between them
FirstFourWords ==
    LET words == Split(Strip(passed_config.product_description))
    IN  Join(" ", SubSeq(words, 1, Min({4, Len(words)})))

\* The three values a headline is built from
ProductPart == IF FirstFourWords = "" THEN "Your Product" ELSE FirstFourWords
AudiencePart ==
    IF passed_config.target_audience = "" THEN "your audience"
    ELSE passed_config.target_audience
KeywordPart ==
    IF insights.top_keywords = <<>> THEN "innovation" ELSE insights.top_keywords[1]

\* C16 as claimed: for every requested framework the headline interpolates
\* all three of the first 4 words of the product description, the target
\* audience (or its generic fallback) and the top keyword (or "innovation").
C16_HeadlineAllThree ==
    pc = "generated" =>
        \A i \in DOMAIN variants :
            /\ Contains(variants[i].headline, ProductPart)
            /\ \/ Contains(variants[i].headline, AudiencePart)
               \/ Contains(variants[i].headline, Title(AudiencePart))
            /\ \/ Contains(variants[i].headline, Title(KeywordPart))
               \/ Contains(variants[i].headline, Lower(KeywordPart))

\* C16 amended: the headline is a fixed template per framework over the first
\* 4 words of the product description (or "Your Product"), the target audience
\* (or "your audience") and the top keyword (or "innovation"): AIDA takes all
\* three, PAS, 4Ps and the generic headline take the product and the keyword,
\* Story takes the audience and the product.
C16_HeadlineTemplates ==
    pc = "generated" =>
        \A i \in DOMAIN variants :
            variants[i].headline =
                CASE variants[i].framework = "AIDA" ->
                       ProductPart \o ": The " \o Title(KeywordPart) \o " Upgrade "
                           \o AudiencePart \o " Actually Use"
                  [] variants[i].framework = "PAS" ->
                       "Tired of " \o Lower(KeywordPart) \o " Failures? Meet " \o ProductPart
                  [] variants[i].framework = "4Ps" ->
                       ProductPart \o " - " \o Title(KeywordPart) \o " in Every Detail"
                  [] variants[i].framework = "Story" ->
                       "How " \o Title(AudiencePart) \o " Go From Stuck to Thriving with "
                           \o ProductPart
                  [] OTHER ->
                       ProductPart \o ": Experience " \o Title(KeywordPart) \o " Today"

\* C16 witness: headlines were built from a description of more than four
\* words, an audience and a keyword list: the PAS headline is without the
\* audience, the Story headline without the keyword.
C16_Witness ==
    /\ pc = "generated"
    /\ passed_config.product_description = "  we optimize your Conversion experience  "
    /\ passed_config.target_audience = "saaS founders"
    /\ insights.top_keywords = <<"cold-brew", "leaks">>
    /\ \E i, j \in DOMAIN variants :
           /\ variants[i].framework = "PAS"
           /\ variants[i].headline
                  = "Tired of cold-brew Failures? Meet we optimize your Conversion"
           /\ variants[j].framework = "Story"
           /\ variants[j].headline
                  = "How Saas Founders Go From Stuck to Thriving with we optimize your Conversion"

----------------------------------------------------------------------------
(* The application, checked under SpecApp                                  *)

\* The step is a run of the Generate Ads handler
GenerateClicked == pc' \in {"rejected", "generated"}

\* the text is empty after trimming
Blank(text) == \A i \in 1..Len(text) : IsSpace(Char(text, i))

\* C17: the generator is never called with a product description that is
\* blank: a Generate Ads click with a blank description ends in the error
\* message, with no variants and with the stored insights as they were; a
\* click that calls the generator passes it a description that is not blank.
C17_NoGenerationWithoutDescription ==
    [][GenerateClicked =>
           /\ Blank(product_description) =>
                  /\ pc' = "rejected"
                  /\ screen' = <<"Please enter a product / offer description in the sidebar.">>
                  /\ variants' = <<>>
                  /\ passed_config' = NoConfig
                  /\ session' = session
           /\ pc' = "generated" =>
                  /\ ~Blank(product_description)
                  /\ passed_config'.product_description = product_description]_vars

\* C17 witness: Generate Ads was clicked with a description of blanks after
\* an analysis had been stored: the error message is on the screen, no
\* variants, the stored insights still there.
C17_Witness ==
    /\ pc = "rejected"
    /\ product_description = "   "
    /\ screen = <<"Please enter a product / offer description in the sidebar.">>
    /\ variants = <<>>
    /\ session # NoInsights

\* C18: the stored insights are written by Analyze Market clicks and by
\* nothing else, Generate Ads included, so they are those of the most recent
\* Analyze Market click; a Generate Ads click uses the stored insights when
\* there are any, whatever the description and the corpus are by then, and
\* the analysis of the current description and corpus only when no analysis
\* has been run in the session.
C18_StoredInsightsReused ==
    [][/\ pc' = "analyzed" =>
              /\ session' # NoInsights
              /\ session' = insights'
              /\ insights'.raw_notes = voc_text
       /\ pc' # "analyzed" => session' = session
       /\ pc' = "generated" =>
              /\ session' = session
              /\ session # NoInsights => insights' = session
              /\ session = NoInsights =>
                     insights' = AnalyzeMarketText(product_description, voc_text)]_vars

\* C18 witness: ads were generated from stored insights after both the corpus
\* and the product description had been edited: the insights in use are the
\* stored ones, of another corpus than the current one, and quote the old
\* description.
C18_Witness ==
    /\ pc = "generated"
    /\ session # NoInsights
    /\ insights = session
    /\ insights.raw_notes # voc_text
    /\ insights.pains # AnalyzeMarketText(product_description, voc_text).pains
    /\ insights.desires =
           <<"They want a simpler, faster way to benefit from    .">>
    /\ Strip(product_description) # ""

====
